---- MODULE Spec2Model ----
(***************************************************************************)
(* Log service: the ingest Lambda (validate, stamp, put), the read-recent  *)
(* Lambda (query the TimestampIndex, newest first, Limit 100) and the      *)
(* DynamoDB table LogEntries with its global secondary index.              *)
(***************************************************************************)
EXTENDS Integers, Sequences, FiniteSets, TLC

(***************************************************************************)
(* Bounds of the model.                                                    *)
(***************************************************************************)
\* number of ingest invocations that may run concurrently
NumIngest == 2
\* first wall-clock reading (milliseconds) of a run that starts empty
ClockStart == 9
\* how many times the wall clock advances during a run
MaxTicks == 1
\* records already in the table when a large-store run begins
Preload == 99

Invocations == 1..NumIngest

(***************************************************************************)
(* JavaScript values, as JSON.parse produces them.  A string is a sequence *)
(* of one-character strings.                                               *)
(***************************************************************************)
JsVal(t, s, n) == [t |-> t, s |-> s, n |-> n]
Undefined == JsVal("undefined", <<>>, 0)
Null == JsVal("null", <<>>, 0)
Num(n) == JsVal("number", <<>>, n)
Bool(b) == JsVal("boolean", <<>>, IF b THEN 1 ELSE 0)
Str(s) == JsVal("string", s, 0)
EmptyArray == JsVal("array", <<>>, 0)
EmptyObject == JsVal("object", <<>>, 0)

\* !v
Falsy(v) ==
    \/ v.t \in {"undefined", "null"}
    \/ v.t = "boolean" /\ v.n = 0
    \/ v.t = "number" /\ v.n = 0
    \/ v.t = "string" /\ v.s = <<>>

\* typeof v
TypeOf(v) ==
    IF v.t \in {"null", "array", "object"} THEN "object" ELSE v.t

Whitespace == {" ", "\t", "\n"}

RECURSIVE TrimStart(_)
TrimStart(s) ==
    IF s # <<>> /\ Head(s) \in Whitespace THEN TrimStart(Tail(s)) ELSE s

RECURSIVE TrimEnd(_)
TrimEnd(s) ==
    IF s # <<>> /\ s[Len(s)] \in Whitespace
    THEN TrimEnd(SubSeq(s, 1, Len(s) - 1))
    ELSE s

\* String.prototype.trim
Trim(s) == TrimEnd(TrimStart(s))

(***************************************************************************)
(* The parsed request body: the top-level value and, for an object, its    *)
(* properties (a property the object lacks reads as undefined).            *)
(***************************************************************************)
Fields == {"severity", "message", "logId", "timestamp", "id", "occurredAt", "logType"}

NoFields == [k \in Fields |-> Undefined]

Input(v, f) == [v |-> v, f |-> f]

Payload(sev, msg) ==
    Input(EmptyObject, [NoFields EXCEPT !["severity"] = sev, !["message"] = msg])

\* a payload that also carries the server-assigned field names
WithConflicts(in) ==
    Input(in.v, [in.f EXCEPT !["logId"] = Num(1),
                             !["timestamp"] = Num(ClockStart),
                             !["id"] = Num(1),
                             !["occurredAt"] = Num(ClockStart),
                             !["logType"] = Str(<<"X">>)])

INFO == <<"i", "n", "f", "o">>
WARNING == <<"w", "a", "r", "n", "i", "n", "g">>
ERROR == <<"e", "r", "r", "o", "r">>

VALID_SEVERITIES == <<INFO, WARNING, ERROR>>

\* Array.prototype.includes: SameValueZero against each element
Includes(arr, v) ==
    \E k \in 1..Len(arr) : v.t = "string" /\ v.s = arr[k]

ValidationResult(ok, err) == [isValid |-> ok, error |-> err]

validateLogInput_NoTrim(input) ==
    IF Falsy(input.v) \/ TypeOf(input.v) # "object"
    THEN ValidationResult(FALSE, "Request body must be a valid JSON object")
    ELSE IF Falsy(input.f["severity"])
    THEN ValidationResult(FALSE, "Missing required field: severity")
    ELSE IF ~Includes(VALID_SEVERITIES, input.f["severity"])
    THEN ValidationResult(FALSE, "Invalid severity. Must be one of: info, warning, error")
    ELSE IF Falsy(input.f["message"])
    THEN ValidationResult(FALSE, "Missing required field: message")
    ELSE IF TypeOf(input.f["message"]) # "string"
    THEN ValidationResult(FALSE, "Message must be a string")
    ELSE ValidationResult(TRUE, "")

validateLogInput_AnySeverity(input) ==
    IF Falsy(input.v) \/ TypeOf(input.v) # "object"
    THEN ValidationResult(FALSE, "Request body must be a valid JSON object")
    ELSE IF Falsy(input.f["severity"])
    THEN ValidationResult(FALSE, "Missing required field: severity")
    ELSE IF Falsy(input.f["message"])
    THEN ValidationResult(FALSE, "Missing required field: message")
    ELSE IF TypeOf(input.f["message"]) # "string"
    THEN ValidationResult(FALSE, "Message must be a string")
    ELSE IF Len(Trim(input.f["message"].s)) = 0
    THEN ValidationResult(FALSE, "Message cannot be empty")
    ELSE ValidationResult(TRUE, "")

validateLogInput(input) ==
    IF Falsy(input.v) \/ TypeOf(input.v) # "object"
    THEN ValidationResult(FALSE, "Request body must be a valid JSON object")
    ELSE IF Falsy(input.f["severity"])
    THEN ValidationResult(FALSE, "Missing required field: severity")
    ELSE IF ~Includes(VALID_SEVERITIES, input.f["severity"])
    THEN ValidationResult(FALSE, "Invalid severity. Must be one of: info, warning, error")
    ELSE IF Falsy(input.f["message"])
    THEN ValidationResult(FALSE, "Missing required field: message")
    ELSE IF TypeOf(input.f["message"]) # "string"
    THEN ValidationResult(FALSE, "Message must be a string")
    ELSE IF Len(Trim(input.f["message"].s)) = 0
    THEN ValidationResult(FALSE, "Message cannot be empty")
    ELSE ValidationResult(TRUE, "")

(***************************************************************************)
(* The ingest handler's synchronous steps.                                 *)
(***************************************************************************)
\* the Lambda event: kind "null" is an invocation without an event object,
\* "missing" an event without a body (or with the empty string as body),
\* "malformed" a body that is not JSON, "json" a body that parses to v
Event(kind, in) == [kind |-> kind, in |-> in]

\* JSON.parse(event.body || '{}')
JSONParse(event) ==
    IF event.kind = "malformed" THEN [threw |-> TRUE, body |-> Input(Undefined, NoFields)]
    ELSE IF event.kind = "missing" THEN [threw |-> FALSE, body |-> Input(EmptyObject, NoFields)]
    ELSE [threw |-> FALSE, body |-> event.in]

\* Date.prototype.toISOString: fixed-width, zero-padded decimal fields; the
\* model keeps the three digits of the millisecond field
ToISOString(ms) == << (ms \div 100) % 10, (ms \div 10) % 10, ms % 10 >>

NoEntry == [logId |-> 0, timestamp |-> <<>>, severity |-> <<>>, message |-> <<>>,
            logType |-> ""]

BuildLogEntry_FromBody(body, id, ts) ==
    [logId |-> IF Falsy(body.f["logId"]) THEN id ELSE body.f["logId"].n,
     timestamp |-> IF Falsy(body.f["timestamp"]) THEN ts
                   ELSE ToISOString(body.f["timestamp"].n + 1),
     severity |-> body.f["severity"].s,
     message |-> body.f["message"].s,
     logType |-> IF Falsy(body.f["logType"]) THEN "LOG" ELSE "X"]

\* const logEntry: LogEntry = { logId, timestamp, severity, message, logType }
BuildLogEntry(body, id, ts) ==
    [logId |-> id,
     timestamp |-> ts,
     severity |-> body.f["severity"].s,
     message |-> body.f["message"].s,
     logType |-> "LOG"]

\* the handler's return value: statusCode and the keys and values of the
\* JSON body
NoResponse == [statusCode |-> 0, keys |-> {}, success |-> FALSE, message |-> "",
               logId |-> 0, timestamp |-> <<>>]

FailureResponse(status, msg) ==
    [statusCode |-> status, keys |-> {"success", "message"}, success |-> FALSE,
     message |-> msg, logId |-> 0, timestamp |-> <<>>]

SuccessResponse_Regenerated(entry) ==
    [statusCode |-> 200, keys |-> {"success", "logId", "timestamp"}, success |-> TRUE,
     message |-> "", logId |-> entry.logId + 1, timestamp |-> entry.timestamp]

SuccessResponse(entry) ==
    [statusCode |-> 200, keys |-> {"success", "logId", "timestamp"}, success |-> TRUE,
     message |-> "", logId |-> entry.logId, timestamp |-> entry.timestamp]

InternalError_Leaky(err) == FailureResponse(500, err)

InternalError_As400(err) == FailureResponse(400, "Internal server error")

\* the outer catch: the error is logged, never returned
InternalError(err) == FailureResponse(500, "Internal server error")

(***************************************************************************)
(* DynamoDB: the table LogEntries (partition key logId, sort key           *)
(* timestamp) and its global secondary index TimestampIndex (partition key *)
(* logType, sort key timestamp, all attributes projected).  A string sort  *)
(* key orders by its characters, left to right.                            *)
(***************************************************************************)
RECURSIVE StrLess(_, _)
StrLess(a, b) ==
    IF b = <<>> THEN FALSE
    ELSE IF a = <<>> THEN TRUE
    ELSE IF Head(a) # Head(b) THEN Head(a) < Head(b)
    ELSE StrLess(Tail(a), Tail(b))

\* the items of a table or an index, as a set
Items(seq) == {seq[p] : p \in 1..Len(seq)}

SameKey_ByPayload(a, b) == a.severity = b.severity /\ a.message = b.message

SameKey_ByLogType(a, b) == a.logType = b.logType

SameKey(a, b) == a.logId = b.logId /\ a.timestamp = b.timestamp

KeyPositions(tbl, item) == {p \in 1..Len(tbl) : SameKey(tbl[p], item)}

\* PutCommand without a condition: the item replaces the one with its key,
\* or is added
PutItem(tbl, item) ==
    IF KeyPositions(tbl, item) = {} THEN Append(tbl, item)
    ELSE [p \in 1..Len(tbl) |-> IF SameKey(tbl[p], item) THEN item ELSE tbl[p]]

\* the ghost of PutItem: which invocation wrote each item of the table
PutWriter(wr, tbl, item, i) ==
    IF KeyPositions(tbl, item) = {} THEN Append(wr, i)
    ELSE [p \in 1..Len(tbl) |-> IF SameKey(tbl[p], item) THEN i ELSE wr[p]]

\* the places of an index, kept in ascending order of the sort key, where an
\* item may go: after every smaller key, before every greater one, anywhere
\* among equal ones
InsertPositions(idx, item) ==
    {p \in 0..Len(idx) :
        /\ p > 0 => ~StrLess(item.timestamp, idx[p].timestamp)
        /\ p < Len(idx) => ~StrLess(idx[p + 1].timestamp, item.timestamp)}

InsertAt(idx, p, item) ==
    SubSeq(idx, 1, p) \o <<item>> \o SubSeq(idx, p + 1, Len(idx))

InPartition(r) == r.logType = "LOG"

Limit == 100

Min(a, b) == IF a < b THEN a ELSE b

Query_Ascending(idx) ==
    LET items == SelectSeq(idx, InPartition)
    IN  [j \in 1..Min(Len(items), Limit) |-> items[j]]

Query_Unlimited(idx) ==
    LET items == SelectSeq(idx, InPartition)
        n == Len(items)
    IN  [j \in 1..n |-> items[n - j + 1]]

\* QueryCommand on the index: KeyConditionExpression logType = 'LOG',
\* ScanIndexForward false, Limit 100
Query(idx) ==
    LET items == SelectSeq(idx, InPartition)
        n == Len(items)
    IN  [j \in 1..Min(n, Limit) |-> items[n - j + 1]]

(***************************************************************************)
(* The read-recent handler's return value.                                 *)
(***************************************************************************)
NoRead == [statusCode |-> 0, keys |-> {}, count |-> 0, logs |-> <<>>, error |-> ""]

ReadRecentResponse_EmptyIsError(logs) ==
    IF logs = <<>>
    THEN [statusCode |-> 500, keys |-> {"count", "logs", "error"}, count |-> 0,
          logs |-> <<>>, error |-> "Internal server error"]
    ELSE [statusCode |-> 200, keys |-> {"count", "logs"}, count |-> Len(logs),
          logs |-> logs, error |-> ""]

ReadRecentResponse(logs) ==
    [statusCode |-> 200, keys |-> {"count", "logs"}, count |-> Len(logs),
     logs |-> logs, error |-> ""]

ReadFailure_MaskedAsEmpty ==
    [statusCode |-> 200, keys |-> {"count", "logs"}, count |-> 0, logs |-> <<>>,
     error |-> ""]

ReadFailure ==
    [statusCode |-> 500, keys |-> {"count", "logs", "error"}, count |-> 0,
     logs |-> <<>>, error |-> "Internal server error"]

(***************************************************************************)
(* State.                                                                  *)
(***************************************************************************)
VARIABLES
    pc,            \* per ingest invocation: "idle", "putting" (PutCommand sent),
                   \* "stored" (DynamoDB has applied it), "done" (returned)
    event,         \* per ingest invocation: the event it was invoked with
    logEntry,      \* per ingest invocation: the item it built
    caught,        \* per ingest invocation: the error its outer catch caught
    response,      \* per ingest invocation: what the handler returned
    table,         \* LogEntries, in the order the items were put
    writer,        \* ghost: the invocation that put each item of table
    index,         \* TimestampIndex, ascending by timestamp
    clock,         \* the wall clock, in milliseconds
    nextId,        \* the next identifier uuidv4 hands out
    issued,        \* ghost, per ingest invocation: the identifier uuidv4 returned
                   \* to it and the clock reading new Date() gave it
    readResponse,  \* what a read-recent invocation is returning in this state
    readCaught     \* the error that invocation's catch caught

vars == <<pc, event, logEntry, caught, response, table, writer, index, clock,
          nextId, issued, readResponse, readCaught>>

NoEvent == Event("none", Input(Undefined, NoFields))

InitIngest ==
    /\ pc = [i \in Invocations |-> "idle"]
    /\ event = [i \in Invocations |-> NoEvent]
    /\ logEntry = [i \in Invocations |-> NoEntry]
    /\ caught = [i \in Invocations |-> ""]
    /\ response = [i \in Invocations |-> NoResponse]
    /\ issued = [i \in Invocations |-> [id |-> 0, ms |-> 0]]
    /\ readResponse = NoRead
    /\ readCaught = ""

\* the state after deployment: an empty table
Init ==
    /\ InitIngest
    /\ table = <<>>
    /\ writer = <<>>
    /\ index = <<>>
    /\ clock = ClockStart
    /\ nextId = 1

(***************************************************************************)
(* The ingest handler.                                                     *)
(***************************************************************************)
\* a generator that hands out its previous identifier again
uuidv4_Reused == IF nextId > 1 THEN nextId - 1 ELSE nextId

\* uuidv4(): an identifier no earlier call returned
uuidv4 == nextId

\* no read-recent invocation returns in the state a step of anything else leads to
NoReadReturning ==
    /\ readResponse' = NoRead
    /\ readCaught' = ""

Finish(i, ev, err, resp) ==
    /\ pc' = [pc EXCEPT ![i] = "done"]
    /\ event' = [event EXCEPT ![i] = ev]
    /\ caught' = [caught EXCEPT ![i] = err]
    /\ response' = [response EXCEPT ![i] = resp]

\* the handler from its entry to the await of the PutCommand, or to the
\* return that comes before it; invocations are numbered in order of arrival
Receive(i, ev) ==
    /\ pc[i] = "idle"
    /\ \A j \in Invocations : j < i => pc[j] # "idle"
    /\ IF ev.kind = "null"
       THEN \* event.body throws a TypeError inside the outer try
            /\ Finish(i, ev, "TypeError", InternalError("TypeError"))
            /\ UNCHANGED <<logEntry, nextId, issued>>
       ELSE IF JSONParse(ev).threw
       THEN /\ Finish(i, ev, "", FailureResponse(400, "Invalid JSON in request body"))
            /\ UNCHANGED <<logEntry, nextId, issued>>
       ELSE IF ~validateLogInput(JSONParse(ev).body).isValid
       THEN /\ Finish(i, ev, "",
                      FailureResponse(400, validateLogInput(JSONParse(ev).body).error))
            /\ UNCHANGED <<logEntry, nextId, issued>>
       ELSE /\ logEntry' = [logEntry EXCEPT
                               ![i] = BuildLogEntry(JSONParse(ev).body, uuidv4,
                                                    ToISOString(clock))]
            /\ nextId' = nextId + 1
            /\ issued' = [issued EXCEPT ![i] = [id |-> uuidv4, ms |-> clock]]
            /\ pc' = [pc EXCEPT ![i] = "putting"]
            /\ event' = [event EXCEPT ![i] = ev]
            /\ UNCHANGED <<caught, response>>
    /\ NoReadReturning
    /\ UNCHANGED <<table, writer, index, clock>>

\* DynamoDB applies the put
PutStored(i) ==
    /\ pc[i] = "putting"
    /\ table' = PutItem(table, logEntry[i])
    /\ writer' = PutWriter(writer, table, logEntry[i], i)
    /\ pc' = [pc EXCEPT ![i] = "stored"]
    /\ NoReadReturning
    /\ UNCHANGED <<event, logEntry, caught, response, index, clock, nextId, issued>>

StorageErrors == {"ProvisionedThroughputExceededException"}

\* DynamoDB refuses the put: send() throws, the outer catch returns
PutRejected(i, err) ==
    /\ pc[i] = "putting"
    /\ Finish(i, event[i], err, InternalError(err))
    /\ NoReadReturning
    /\ UNCHANGED <<logEntry, table, writer, index, clock, nextId, issued>>

\* the put's acknowledgement arrives: the handler returns the success response
PutAcked(i) ==
    /\ pc[i] = "stored"
    /\ Finish(i, event[i], "", SuccessResponse(logEntry[i]))
    /\ NoReadReturning
    /\ UNCHANGED <<logEntry, table, writer, index, clock, nextId, issued>>

\* the acknowledgement is lost: send() throws although the item is stored
PutTimedOut(i) ==
    /\ pc[i] = "stored"
    /\ Finish(i, event[i], "TimeoutError", InternalError("TimeoutError"))
    /\ NoReadReturning
    /\ UNCHANGED <<logEntry, table, writer, index, clock, nextId, issued>>

(***************************************************************************)
(* DynamoDB brings the index up to date with the table, one item at a      *)
(* time, some time after the put.                                          *)
(***************************************************************************)
Unindexed ==
    LET indexed == Items(index)
    IN  {p \in 1..Len(table) : table[p] \notin indexed}

IndexPropagate ==
    /\ \E p \in Unindexed :
          LET others == SelectSeq(index, LAMBDA r : ~SameKey(r, table[p]))
          IN  \E at \in InsertPositions(others, table[p]) :
                 index' = InsertAt(others, at, table[p])
    /\ NoReadReturning
    /\ UNCHANGED <<pc, event, logEntry, caught, response, table, writer, clock, nextId,
                   issued>>

(***************************************************************************)
(* The read-recent handler: one query, then the return.  The handler keeps *)
(* nothing between invocations: readResponse is the value being returned,  *)
(* and is gone with the next step of anything else.                        *)
(***************************************************************************)
ReadOk ==
    /\ readResponse' = ReadRecentResponse(Query(index))
    /\ readCaught' = ""
    /\ UNCHANGED <<pc, event, logEntry, caught, response, table, writer, index,
                   clock, nextId, issued>>

\* the query throws: the catch returns the failure shape
ReadFail ==
    /\ \E err \in StorageErrors :
          /\ readResponse' = ReadFailure
          /\ readCaught' = err
    /\ UNCHANGED <<pc, event, logEntry, caught, response, table, writer, index,
                   clock, nextId, issued>>

Tick(last) ==
    /\ clock < last
    /\ clock' = clock + 1
    /\ NoReadReturning
    /\ UNCHANGED <<pc, event, logEntry, caught, response, table, writer, index, nextId,
                   issued>>

(***************************************************************************)
(* Requests.                                                               *)
(***************************************************************************)
OK == <<"o", "k">>
PADDED == <<" ", "o", "k", "\n">>

ValidEvents ==
    {Event("json", Payload(Str(ERROR), Str(OK))),
     Event("json", WithConflicts(Payload(Str(INFO), Str(PADDED))))}

Events ==
    ValidEvents \cup
    {Event("json", Payload(Str(WARNING), Str(<<" ">>))),
     Event("malformed", Input(Undefined, NoFields)),
     Event("null", Input(Undefined, NoFields))}

Storage(last) ==
    \/ \E i \in Invocations : PutStored(i)
    \/ \E i \in Invocations, err \in StorageErrors : PutRejected(i, err)
    \/ \E i \in Invocations : PutAcked(i)
    \/ \E i \in Invocations : PutTimedOut(i)
    \/ IndexPropagate
    \/ ReadOk
    \/ ReadFail
    \/ Tick(last)

Next ==
    \/ \E i \in Invocations, ev \in Events : Receive(i, ev)
    \/ Storage(ClockStart + MaxTicks)

Spec == Init /\ [][Next]_vars

(***************************************************************************)
(* Runs that begin with a table already holding Preload items, each put    *)
(* by an earlier invocation at its own millisecond.  The invocation that   *)
(* took the first timestamp may have been the last to complete its put.    *)
(***************************************************************************)
PreloadItem(k) ==
    [logId |-> k, timestamp |-> ToISOString(k), severity |-> INFO, message |-> OK,
     logType |-> "LOG"]

InitFull ==
    /\ InitIngest
    /\ \E late \in BOOLEAN :
          table = [p \in 1..Preload |->
                      IF ~late THEN PreloadItem(p)
                      ELSE IF p = Preload THEN PreloadItem(1)
                      ELSE PreloadItem(p + 1)]
    /\ writer = [p \in 1..Preload |-> 0]
    /\ index = [p \in 1..Preload |-> PreloadItem(p)]
    /\ clock = Preload
    /\ nextId = Preload + 1

\* two more invocations take the table past Limit items
NextFull ==
    \/ \E i \in {1, 2}, ev \in ValidEvents : Receive(i, ev)
    \/ Storage(Preload + MaxTicks)

SpecFull == InitFull /\ [][NextFull]_vars

(***************************************************************************)
(* Runs over every shape of request body.                                  *)
(***************************************************************************)
SeverityValues ==
    {Undefined, Null, Num(0), Num(1), Str(<<>>), Str(INFO), Str(WARNING), Str(ERROR),
     Str(<<"d", "e", "b", "u", "g">>), Str(<<"I", "N", "F", "O">>), EmptyArray}

MessageValues ==
    {Undefined, Null, Num(0), Num(5), Bool(FALSE), Bool(TRUE), Str(<<>>), Str(<<" ">>),
     Str(<<"\t", " ", "\n">>), Str(OK), Str(PADDED), EmptyArray, EmptyObject}

ObjectBodies == {Payload(sev, msg) : sev \in SeverityValues, msg \in MessageValues}

OtherBodies ==
    {Input(v, NoFields) : v \in {Null, Num(0), Num(5), Bool(TRUE), Str(<<>>), Str(OK),
                                 EmptyArray}}

AllEvents ==
    {Event("json", in) : in \in ObjectBodies \cup OtherBodies}
    \cup {Event("json", WithConflicts(in)) : in \in ObjectBodies}
    \cup {Event(k, Input(Undefined, NoFields)) : k \in {"missing", "malformed", "null"}}

\* one invocation at a time: validation reads nothing but its own event
NextInput ==
    \/ \E ev \in AllEvents : Receive(1, ev)
    \/ Storage(ClockStart + MaxTicks)

SpecInput == Init /\ [][NextInput]_vars

(***************************************************************************)
(* Properties.                                                             *)
(***************************************************************************)
Received(i) == pc[i] # "idle"

Returned(i) == pc[i] = "done"

\* the items of the table that invocation i put
PutBy(i) == {p \in 1..Len(table) : writer[p] = i}

Severity(ev) == JSONParse(ev).body.f["severity"]

Message(ev) == JSONParse(ev).body.f["message"]

WhitespaceOnly(str) == \A k \in 1..Len(str) : str[k] \in Whitespace

\* the payloads validation is to refuse: severity missing, message missing,
\* severity not one of the three names, message empty or all whitespace,
\* message not a string
Refusable(ev) ==
    /\ ev.kind \in {"json", "missing"}
    /\ \/ Severity(ev).t = "undefined"
       \/ Message(ev).t = "undefined"
       \/ ~(Severity(ev).t = "string" /\ Severity(ev).s \in {INFO, WARNING, ERROR})
       \/ Message(ev).t # "string"
       \/ WhitespaceOnly(Message(ev).s)

\* C1: an ingest invocation whose payload lacks severity or message, names
\* a severity outside info, warning, error, or carries a message that is
\* empty, all whitespace or not a string, returns success:false and never
\* sends a put: it has built no item and no item of the table is its own.
C1_InvalidNeverStored ==
    \A i \in Invocations :
        Received(i) /\ Refusable(event[i]) =>
            /\ Returned(i)
            /\ response[i].success = FALSE
            /\ "success" \in response[i].keys
            /\ logEntry[i] = NoEntry
            /\ PutBy(i) = {}

C1_Witness ==
    \E i \in Invocations :
        /\ Returned(i)
        /\ Severity(event[i]) = Str(INFO)
        /\ Message(event[i]) = Str(<<"\t", " ", "\n">>)
        /\ response[i].statusCode = 400

PutFailures == StorageErrors \cup {"TimeoutError"}

\* C5: when the put of a validated request fails, the handler returns
\* status 500, success:false and the message 'Internal server error',
\* whatever the failure was: two invocations whose puts failed differently
\* return the same response, and the message is not the failure's name.
C5_GenericStorageFailure ==
    \A i \in Invocations :
        Returned(i) /\ caught[i] \in PutFailures =>
            /\ response[i].statusCode = 500
            /\ response[i].keys = {"success", "message"}
            /\ response[i].success = FALSE
            /\ response[i].message = "Internal server error"
            /\ response[i].message # caught[i]
            /\ \A j \in Invocations :
                  Returned(j) /\ caught[j] \in PutFailures => response[j] = response[i]

C5_Witness ==
    \E i, j \in Invocations :
        /\ Returned(i) /\ Returned(j)
        /\ caught[i] = "TimeoutError"
        /\ caught[j] \in StorageErrors
        /\ response[i].statusCode = 500

LogEntryFields == {"logId", "timestamp", "severity", "message", "logType"}

\* C6: the item an invocation builds and puts has the identifier uuidv4
\* returned and the clock reading the handler took, logType 'LOG', the
\* payload's severity and message, and no other field, also when the
\* payload itself carries logId, timestamp, id, occurredAt or logType.
C6_ServerAssigned ==
    \A i \in Invocations :
        /\ logEntry[i] # NoEntry =>
              /\ DOMAIN logEntry[i] = LogEntryFields
              /\ logEntry[i].logId = issued[i].id
              /\ logEntry[i].timestamp = ToISOString(issued[i].ms)
              /\ logEntry[i].logType = "LOG"
              /\ logEntry[i].severity = Severity(event[i]).s
              /\ logEntry[i].message = Message(event[i]).s
        /\ \A p \in PutBy(i) : table[p] = logEntry[i]

C6_Witness ==
    \E i \in Invocations :
        /\ PutBy(i) # {}
        /\ \A k \in {"logId", "timestamp", "id", "occurredAt", "logType"} :
              JSONParse(event[i]).body.f[k] # Undefined
        /\ issued[i].id # JSONParse(event[i]).body.f["logId"].n

\* C9: under every interleaving, an invocation that returned success:true
\* has put exactly one item, which is in the table when the response is
\* made and has the response's logId and timestamp; an invocation that
\* returned status 400 has put none; no invocation has put more than one.
C9_OneRecordPerSuccess ==
    \A i \in Invocations :
        /\ Cardinality(PutBy(i)) <= 1
        /\ Returned(i) /\ response[i].success =>
              /\ Cardinality(PutBy(i)) = 1
              /\ \A p \in PutBy(i) :
                    /\ table[p].logId = response[i].logId
                    /\ table[p].timestamp = response[i].timestamp
        /\ Returned(i) /\ response[i].statusCode = 400 =>
              /\ PutBy(i) = {}
              /\ logEntry[i] = NoEntry

\* two invocations that both succeeded, the later-started one stored first
C9_Witness ==
    \E p, q \in 1..Len(table) :
        /\ p < q
        /\ writer[p] = 2 /\ writer[q] = 1
        /\ response[1].success /\ response[2].success

WellFormed(r) ==
    \/ r.statusCode = 200 /\ r.success /\ r.keys = {"success", "logId", "timestamp"}
    \/ r.statusCode \in {400, 500} /\ ~r.success /\ r.keys = {"success", "message"}

\* the response of an invocation that has ended, case by case
C10_Shape ==
    \A i \in Invocations :
        /\ Returned(i) <=> response[i] # NoResponse
        /\ Returned(i) =>
              /\ WellFormed(response[i])
              /\ response[i].statusCode = 400 <=>
                    (event[i].kind = "malformed" \/ Refusable(event[i]))
              /\ response[i].statusCode = 500 <=> caught[i] # ""
              /\ response[i].statusCode = 200 <=>
                    (caught[i] = "" /\ PutBy(i) # {})

Succeeded(i) == Returned(i) /\ response[i].success

ReadSucceeded == readResponse.statusCode = 200

Reverse(seq) == [k \in 1..Len(seq) |-> seq[Len(seq) + 1 - k]]

NewestFirst(logs) ==
    \A k \in 1..(Len(logs) - 1) : ~StrLess(logs[k].timestamp, logs[k + 1].timestamp)

StrictlyIncreasing(tbl) ==
    \A k \in 1..(Len(tbl) - 1) : StrLess(tbl[k].timestamp, tbl[k + 1].timestamp)

\* C2: a successful read is ordered newest first; and when the table holds
\* at most Limit items, all put by invocations that have returned success,
\* with timestamps strictly increasing in the order they were put, the read
\* returns exactly those items, last put first.
C2_ReverseInsertionOrder ==
    ReadSucceeded =>
        /\ NewestFirst(readResponse.logs)
        /\ ( /\ \A p \in 1..Len(table) : writer[p] \in Invocations /\ Succeeded(writer[p])
             /\ Len(table) <= Limit
             /\ StrictlyIncreasing(table) )
           => readResponse.logs = Reverse(table)

\* C4: a read that returns after an ingest invocation has returned
\* success:true contains a record with the logId of that response, with the
\* severity and the message of the request, character for character.
C4_RoundTrip ==
    ReadSucceeded =>
        \A i \in Invocations :
            Succeeded(i) =>
                \E k \in 1..Len(readResponse.logs) :
                    /\ readResponse.logs[k].logId = response[i].logId
                    /\ readResponse.logs[k].severity = Severity(event[i]).s
                    /\ readResponse.logs[k].message = Message(event[i]).s

ReadReturning == readResponse # NoRead

EmptyPage ==
    /\ readResponse.statusCode = 200
    /\ readResponse.count = 0
    /\ readResponse.logs = <<>>
    /\ "error" \notin readResponse.keys

\* C7 as claimed: a read of a table that holds no items returns status 200,
\* count 0, no records and no error field, and never the failure shape.
C7_EmptyNeverFails ==
    ReadReturning /\ table = <<>> => EmptyPage

\* C7 as amended: a read of a table that holds no items, whose query does
\* not fail, returns status 200, count 0, no records and no error field;
\* the failure shape is returned only when the query itself failed.
C7_EmptyIsNotAnError ==
    ReadReturning /\ table = <<>> =>
        /\ readCaught = "" => EmptyPage
        /\ readResponse.statusCode # 200 => readCaught # ""

C7_Witness ==
    /\ table = <<>>
    /\ readCaught = ""
    /\ EmptyPage
    /\ \E i \in Invocations : Returned(i)

Visible == Cardinality(Items(index))

LastPut == {table[p] : p \in (Len(table) - 99)..Len(table)}

C11_QueryFailureSurfaced ==
    ReadReturning =>
        /\ readCaught # "" =>
              /\ readResponse.statusCode = 500
              /\ readResponse.count = 0
              /\ readResponse.logs = <<>>
              /\ readResponse.keys = {"count", "logs", "error"}
              /\ readResponse.error = "Internal server error"
        /\ ReadSucceeded => readCaught = ""

\* the query fails while the index holds an item
C11_Witness ==
    /\ ReadReturning
    /\ readCaught \in StorageErrors
    /\ index # <<>>
    /\ readResponse.statusCode = 500

\* a field the payload carries: JSON null stands for no value
Present(v) == v.t \notin {"undefined", "null"}

ValidSeverity(v) == v.t = "string" /\ v.s \in {INFO, WARNING, ERROR}

\* the reason of the first rule a payload violates, in the order object,
\* severity present, severity valid, message present, message a string,
\* message not empty once trimmed; "" when it violates none
FirstViolatedRule(ev) ==
    IF JSONParse(ev).body.v.t \notin {"object", "array"}
    THEN "Request body must be a valid JSON object"
    ELSE IF ~Present(Severity(ev))
    THEN "Missing required field: severity"
    ELSE IF ~ValidSeverity(Severity(ev))
    THEN "Invalid severity. Must be one of: info, warning, error"
    ELSE IF ~Present(Message(ev))
    THEN "Missing required field: message"
    ELSE IF Message(ev).t # "string"
    THEN "Message must be a string"
    ELSE IF WhitespaceOnly(Message(ev).s)
    THEN "Message cannot be empty"
    ELSE ""

Parsed(i) == Received(i) /\ event[i].kind \in {"json", "missing"}

\* C12: validation reports the reason of the first violated rule only, in
\* the fixed order of the six rules; a message that is present and empty
\* once trimmed, the empty string included, is reported as 'Message cannot
\* be empty'.
C12_FirstViolatedRule ==
    \A i \in Invocations :
        Parsed(i) =>
            IF FirstViolatedRule(event[i]) = ""
            THEN response[i].statusCode # 400
            ELSE /\ Returned(i)
                 /\ response[i].statusCode = 400
                 /\ response[i].message = FirstViolatedRule(event[i])

\* C17: a payload object with a valid severity whose message is present and
\* is a number (0 included), a boolean (false included), an object or an
\* array is refused with the reason 'Message must be a string'.
C17_NonStringMessage ==
    \A i \in Invocations :
        ( /\ Parsed(i)
          /\ ValidSeverity(Severity(event[i]))
          /\ Message(event[i]).t \in {"number", "boolean", "object", "array"} )
        => /\ Returned(i)
           /\ response[i].statusCode = 400
           /\ response[i].message = "Message must be a string"

\* C13: every item of the table has a severity among info, warning, error,
\* a message that is a string with a character other than whitespace, and
\* logType 'LOG'.
C13_StoredRecordsValid ==
    \A p \in 1..Len(table) :
        /\ table[p].severity \in {INFO, WARNING, ERROR}
        /\ table[p].message # <<>>
        /\ ~WhitespaceOnly(table[p].message)
        /\ \A i \in Invocations :
              writer[p] = i => Message(event[i]).t = "string"
        /\ table[p].logType = "LOG"

\* a stored message that has whitespace around it
C13_Witness ==
    \E p \in 1..Len(table) :
        /\ table[p].message = PADDED
        /\ table[p].severity = WARNING
        /\ table[p].logType = "LOG"

\* C14: no two items of the table share a logId, and no two invocations of
\* the ingest handler are given the same logId, whether or not their puts
\* were stored.
C14_LogIdUnique ==
    /\ \A p, q \in 1..Len(table) :
          table[p].logId = table[q].logId => p = q
    /\ \A i, j \in Invocations :
          ( logEntry[i] # NoEntry /\ logEntry[j] # NoEntry
            /\ logEntry[i].logId = logEntry[j].logId ) => i = j
    /\ \A i \in Invocations :
          logEntry[i] # NoEntry =>
             \A p \in 1..Len(table) :
                table[p].logId = logEntry[i].logId => writer[p] = i

\* two records stored by two invocations, with identical payloads
C14_Witness ==
    /\ Len(table) = 2
    /\ writer[1] # writer[2]
    /\ table[1].logId # table[2].logId
    /\ table[1].message = table[2].message

\* C15: TimestampIndex holds no item the table lacks, and every item of the
\* table whose put was acknowledged with a 200 response is in the index.
C15_IndexEqualsTable ==
    /\ Items(index) \subseteq Items(table)
    /\ \A p \in 1..Len(table) :
          ( writer[p] \in Invocations /\ Succeeded(writer[p]) )
             => table[p] \in Items(index)

\* the items of the two successful invocations of C16, if any
Duplicates(i, j) ==
    /\ i # j
    /\ Succeeded(i) /\ Succeeded(j)
    /\ event[i] = event[j]

\* C16: two successful invocations of the ingest handler with the same
\* payload leave two items in the table, one each, with different logIds;
\* neither response names the other's item.
C16_NotIdempotent ==
    \A i, j \in Invocations : Duplicates(i, j) =>
        /\ Cardinality(PutBy(i)) = 1 /\ Cardinality(PutBy(j)) = 1
        /\ PutBy(i) # PutBy(j)
        /\ \A p \in PutBy(i), q \in PutBy(j) :
              /\ table[p].logId # table[q].logId
              /\ table[p].severity = table[q].severity
              /\ table[p].message = table[q].message
              /\ response[i].logId = table[p].logId
              /\ response[j].logId = table[q].logId

\* a retry: the same payload twice, both stored within the same millisecond
C16_Witness ==
    /\ Duplicates(1, 2)
    /\ Len(table) = 2
    /\ table[1].timestamp = table[2].timestamp

\* C18: no step removes an item of the table or changes one, and the step in
\* which a read-recent invocation returns, with 200 or with 500, leaves the
\* table and the index as they were.
C18_AppendOnly ==
    [][ /\ Len(table') >= Len(table)
        /\ \A p \in 1..Len(table) : table'[p] = table[p]
        /\ \A k \in 1..Len(index) : index[k] \in Items(index')
        /\ readResponse' # NoRead => UNCHANGED <<table, writer, index>> ]_vars

\* a read-recent invocation returns while the table holds two items
C18_Witness ==
    /\ ReadReturning
    /\ Len(table) = 2
    /\ Len(index) >= 1

====
